---------------------------- MODULE Spec2Model ----------------------------
(***************************************************************************)
(* Billing reconciliation and recurring-invoice scheduling engine of       *)
(* invoice_utility.                                                        *)
(*                                                                         *)
(* The specifications share the variables below:                           *)
(*   Spec        the recurring-invoice scheduler run one call at a time    *)
(*               (process_recurring_invoices, manual_generate, the clock); *)
(*   SpecTicks   the same with process_recurring_invoices as the only call;*)
(*   SpecLedger  the payment ledger (invoice creation, record_payment);    *)
(*   SpecTx      two record_payment calls, each on its own connection,     *)
(*               statement by statement under read-committed isolation;    *)
(*   SpecWorker  start()/stop() and the background worker threads;         *)
(*   SpecWorkerFair  the same under fair scheduling of the threads;        *)
(*   SpecUpcoming    SpecTicks with get_upcoming_invoices;                 *)
(*   SpecNextDate    repeated applications of calculate_next_date;         *)
(*   SpecCalendar    the scheduler on schedules anchored at calendar dates;*)
(*   SpecOverride    the ledger with the manual status overrides;          *)
(*   SpecDelete      the ledger with the deletion of invoices;             *)
(*   SpecTax         calculate_tax;                                        *)
(*   SpecAging       invoice_aging_report over a store of aged invoices;   *)
(*   SpecForecast    predictive_analytics over a store of dated invoices.  *)
(*                                                                         *)
(* Money is an integer number of currency units.  A point in time is an    *)
(* integer number of days; every reading of datetime.now() falls at the    *)
(* same time of day, later than midnight, and the clock never runs         *)
(* backwards.                                                              *)
(***************************************************************************)
EXTENDS Integers, Sequences, FiniteSets, TLC

\* ------------------------------------------------------------------ bounds
MaxInvoices == 3      \* invoices the scheduler may generate
MaxLedgerInvoices == 2 \* invoices created by hand
MaxPayments == 3      \* payments the store may hold
MaxTotal == 2         \* invoice totals are 0..MaxTotal
MaxAmount == 1        \* payment amounts are -MaxAmount..MaxAmount
MaxThreads == 2       \* worker threads a scheduler instance may spawn

Totals == 0..MaxTotal
Amounts == (0 - MaxAmount)..MaxAmount

NoId == 0             \* no row / NULL reference
NULL == -1            \* SQL NULL in a date column

MaxAdvances == 2      \* times the clock moves forward
StartDay == 1         \* every schedule's start date

\* ------------------------------------------------------- program constants
WeeklyDays == 7
MonthlyDays == 30
QuarterlyDays == 90
YearlyDays == 365
PaymentTermsDays == 30

FREQUENCIES == {"weekly", "monthly", "quarterly", "yearly"}

VARIABLES
    invoices,         \* committed rows of table invoices
    payments,         \* committed rows of table payments
    nextId,           \* the next fresh row id (uuid4 never repeats)
    ret,              \* what the last ledger call returned to its caller
    recurring,        \* committed rows of table recurring_invoices, by id
    db_type,          \* the store behind get_db_connection
    now,              \* the day datetime.now() reads
    advances,         \* how often the clock has moved
    result,           \* the last scheduler call made at this clock reading
                      \* and what it returned (history)
    tx,               \* the open connections running record_payment
    is_running,       \* InvoiceScheduler.is_running
    scheduler_thread, \* InvoiceScheduler.scheduler_thread
    threads,          \* where each worker thread is in _run_scheduler
    caller,           \* where the thread calling start() / stop() is
    last              \* the last start() / stop() call and the value of
                      \* is_running it found (history)

ledgerVars == <<invoices, payments, nextId, ret>>
schedVars == <<recurring, db_type, now, advances, result>>
txVars == <<tx>>
workerVars == <<is_running, scheduler_thread, threads, caller, last>>
vars == <<invoices, payments, nextId, ret, recurring, db_type, now, advances,
          result, tx, is_running, scheduler_thread, threads, caller, last>>

\* ------------------------------------------------------------ the ledger
InvoiceIds(invs) == {i.id : i \in invs}

InvoiceById(invs, id) == CHOOSE i \in invs : i.id = id

RECURSIVE SumAmounts(_)
SumAmounts(rows) ==
    IF rows = {} THEN 0
    ELSE LET r == CHOOSE x \in rows : TRUE
         IN  r.amount + SumAmounts(rows \ {r})

\* SELECT SUM(amount) FROM payments WHERE invoice_id = ?   (... or 0)
TotalPaid(pays, invoice_id) ==
    SumAmounts({p \in pays : p.invoice_id = invoice_id})

\* The if / elif of record_payment: there is no else branch, so a sum that is
\* not positive leaves the status column as it was.
NewStatus(old, total_paid, total) ==
    IF total_paid >= total THEN "paid"
    ELSE IF total_paid > 0 THEN "partially_paid"
    ELSE old

SetStatus(invs, id, status) ==
    {IF i.id = id THEN [i EXCEPT !.status = status] ELSE i : i \in invs}

NewInvoice(id, total, created_at, due_date, recurring_id) ==
    [id |-> id, total |-> total, status |-> "unpaid",
     created_at |-> created_at, due_date |-> due_date,
     recurring_id |-> recurring_id]

\* what a ledger call returned: the call, whether it failed, and the invoices
\* it was made on
Ret(call, outcome, invoice_ids) ==
    [call |-> call, outcome |-> outcome, invoice_ids |-> invoice_ids]

NoRet == Ret("none", "ok", {})

\* app.py page_create_invoice: the status column takes its default, 'unpaid'.
CreateInvoice(total) ==
    /\ nextId <= MaxLedgerInvoices
    /\ invoices' = invoices \cup {NewInvoice(nextId, total, 0, NULL, NoId)}
    /\ nextId' = nextId + 1
    /\ ret' = Ret("create_invoice", "ok", {nextId})
    /\ UNCHANGED <<payments, schedVars, txVars, workerVars>>

\* the row record_payment inserts; its id is fresh
NewPayment(pays, invoice_id, amount) ==
    [id |-> <<invoice_id, 1 + Cardinality({p \in pays : p.invoice_id = invoice_id})>>,
     invoice_id |-> invoice_id, amount |-> amount]

AfterFailedInsertKept(pays, invoice_id, amount) ==
    pays \cup {NewPayment(pays, invoice_id, amount)}

\* the payments in the store after a record_payment whose INSERT raised: the
\* connection is closed without a commit
AfterFailedInsert(pays, invoice_id, amount) == pays

\* record_payment, on one connection with nothing running beside it.  The
\* INSERT of a payment whose invoice_id references no invoice raises (foreign
\* key, PRAGMA foreign_keys = ON); the connection is closed without a commit
\* and nothing is stored.  No amount is refused.
RecordPayment(invoice_id, amount) ==
    /\ Cardinality(payments) < MaxPayments
    /\ UNCHANGED <<nextId, schedVars, txVars, workerVars>>
    /\ IF invoice_id \notin InvoiceIds(invoices)
       THEN /\ ret' = Ret("record_payment", "error", {invoice_id})
            /\ payments' = AfterFailedInsert(payments, invoice_id, amount)
            /\ UNCHANGED invoices
       ELSE LET pays == payments \cup {NewPayment(payments, invoice_id, amount)}
                invoice == InvoiceById(invoices, invoice_id)
                total_paid == TotalPaid(pays, invoice_id)
            IN  /\ payments' = pays
                /\ invoices' = SetStatus(invoices, invoice_id,
                                   NewStatus(invoice.status, total_paid, invoice.total))
                /\ ret' = Ret("record_payment", "ok", {invoice_id})

\* ------------------------------------------------------ dates and strings
\* An ISO date or datetime is <<day, part>>: part 0 for a date alone
\* ('2024-01-15', which fromisoformat reads as midnight) and part 1 for a
\* reading of the clock ('2024-01-15T09:30:00').  The order below is both the
\* order of the datetimes and the order of the strings: a date alone is a
\* proper prefix of, and so sorts before, every datetime of its day.
DateOnly(day) == <<day, 0>>

Stamp(day) == <<day, 1>>

IsoLE(a, b) == a[1] < b[1] \/ (a[1] = b[1] /\ a[2] <= b[2])

IsoLT(a, b) == IsoLE(a, b) /\ a # b

PlusDays(a, n) == <<a[1] + n, a[2]>>

\* --------------------------------------------------------- the scheduler
\* the store holds two schedules, each weekly or monthly
Schedules == {1, 2}

ScheduleFrequencies == {"weekly", "monthly"}

\* an id that references no schedule
UnknownSchedule == 3

FrequencyDaysAllWeekly(frequency) ==
    IF frequency \in FREQUENCIES THEN WeeklyDays ELSE NULL

\* timedelta(days=...) of _should_generate_invoice; NULL for the else branch
FrequencyDays(frequency) ==
    CASE frequency = "weekly" -> WeeklyDays
      [] frequency = "monthly" -> MonthlyDays
      [] frequency = "quarterly" -> QuarterlyDays
      [] frequency = "yearly" -> YearlyDays
      [] OTHER -> NULL

ShouldGenerateInvoice(r, t) ==
    IF r.last_generated = NULL
    THEN IsoLE(DateOnly(r.start_date), Stamp(t))
    ELSE IF FrequencyDays(r.frequency) = NULL THEN FALSE
    ELSE IsoLE(PlusDays(Stamp(r.last_generated), FrequencyDays(r.frequency)),
               Stamp(t))

SelectActiveAnyFlag(rec, t) ==
    {s \in DOMAIN rec :
        rec[s].end_date = NULL \/ IsoLE(Stamp(t), DateOnly(rec[s].end_date))}

\* SELECT * FROM recurring_invoices WHERE is_active = 1 AND
\* (end_date IS NULL OR end_date >= now): the ids, in the order of the rows
SelectActive(rec, t) ==
    {s \in DOMAIN rec :
        /\ rec[s].is_active
        /\ (rec[s].end_date = NULL \/ IsoLE(Stamp(t), DateOnly(rec[s].end_date)))}

RECURSIVE InOrder(_)
InOrder(ids) ==
    IF ids = {} THEN <<>>
    ELSE LET m == CHOOSE x \in ids : \A y \in ids : x <= y
         IN  <<m>> \o InOrder(ids \ {m})

\* A failed statement leaves a PostgreSQL transaction aborted (every later
\* statement of it fails); MySQL undoes the failed statement alone.
AbortsOnError(db) == db = "postgresql"

GenerateFromRecurringDueNow(id, r, rid, t) ==
    NewInvoice(id, r.total, t, t, rid)

\* _generate_from_recurring: the row it inserts
GenerateFromRecurring(id, r, rid, t) ==
    NewInvoice(id, r.total, t, t + PaymentTermsDays, rid)

SetLastGeneratedReset(rec, ids, t) ==
    [s \in DOMAIN rec |->
        IF s \in ids
        THEN [rec[s] EXCEPT !.last_generated = IF @ = NULL THEN t ELSE NULL]
        ELSE rec[s]]

SetLastGeneratedAll(rec, ids, t) ==
    [s \in DOMAIN rec |->
        IF ids # {} THEN [rec[s] EXCEPT !.last_generated = t] ELSE rec[s]]

\* UPDATE recurring_invoices SET last_generated = now WHERE id = ?
SetLastGenerated(rec, ids, t) ==
    [s \in DOMAIN rec |->
        IF s \in ids THEN [rec[s] EXCEPT !.last_generated = t] ELSE rec[s]]

\* conn.commit(): what the connection has written becomes the store's
Commit(st, t) ==
    [st EXCEPT !.inv = @ \cup st.pInv,
               !.cNext = st.nextId,
               !.rec = SetLastGenerated(@, st.pRec, t),
               !.pInv = {}, !.pRec = {}]

\* One pass of the for loop of process_recurring_invoices over row s.
\* fault is the statement that raises for this row, if any.
ProcessOne(st, s, t, fault, db) ==
    LET r == st.rows[s] IN
    IF ~ShouldGenerateInvoice(r, t) THEN st
    ELSE IF st.aborted \/ fault = "insert"
    THEN [st EXCEPT !.errors = Append(@, s),
                    !.aborted = @ \/ AbortsOnError(db)]
    ELSE LET st1 == [st EXCEPT
                        !.pInv = @ \cup {GenerateFromRecurring(st.nextId, r, s, t)},
                        !.nextId = @ + 1,
                        !.generated = Append(@, [recurring_id |-> s,
                                                 invoice_id |-> st.nextId])]
         IN  IF fault = "update"
             THEN [st1 EXCEPT !.errors = Append(@, s),
                              !.aborted = AbortsOnError(db)]
             ELSE Commit([st1 EXCEPT !.pRec = @ \cup {s}], t)

RECURSIVE ProcessLoop(_, _, _, _, _)
ProcessLoop(st, todo, t, faults, db) ==
    IF todo = <<>> THEN st
    ELSE ProcessLoop(ProcessOne(st, Head(todo), t, faults[Head(todo)], db),
                     Tail(todo), t, faults, db)

Faults == {"none", "insert", "update"}

\* process_recurring_invoices, the whole call at clock reading now.  What
\* is still uncommitted when the connection is given back is rolled back.
ProcessRecurringInvoices(faults) ==
    LET st0 == [inv |-> invoices, rec |-> recurring, rows |-> recurring,
                pInv |-> {}, pRec |-> {}, aborted |-> FALSE,
                nextId |-> nextId, cNext |-> nextId, generated |-> <<>>, errors |-> <<>>]
        st == ProcessLoop(st0, InOrder(SelectActive(recurring, now)), now,
                          faults, db_type)
    IN  /\ Cardinality(st.inv) <= MaxInvoices
        /\ invoices' = st.inv
        /\ recurring' = st.rec
        /\ nextId' = st.cNext
        /\ result' = [call |-> "process", success |-> TRUE,
                      generated |-> st.generated, errors |-> st.errors]
        /\ UNCHANGED <<payments, ret, db_type, now, advances>>
        /\ UNCHANGED <<txVars, workerVars>>

\* manual_generate, the whole call.  An exception leaves the with block
\* before the commit, so get_db_connection rolls back.
ManualGenerate(recurring_invoice_id, fault) ==
    /\ UNCHANGED <<payments, ret, db_type, now, advances>>
    /\ UNCHANGED <<txVars, workerVars>>
    /\ IF recurring_invoice_id \notin DOMAIN recurring \/ fault # "none"
       THEN /\ result' = [call |-> "manual", success |-> FALSE,
                          generated |-> <<>>, errors |-> <<recurring_invoice_id>>]
            /\ UNCHANGED <<invoices, recurring, nextId>>
       ELSE /\ Cardinality(invoices) < MaxInvoices
            /\ invoices' = invoices \cup
                   {GenerateFromRecurring(nextId, recurring[recurring_invoice_id],
                                          recurring_invoice_id, now)}
            /\ recurring' = SetLastGenerated(recurring, {recurring_invoice_id}, now)
            /\ nextId' = nextId + 1
            /\ result' = [call |-> "manual", success |-> TRUE,
                          generated |-> <<[recurring_id |-> recurring_invoice_id,
                                           invoice_id |-> nextId]>>,
                          errors |-> <<>>]

NoResult ==
    [call |-> "none", success |-> TRUE, generated |-> <<>>, errors |-> <<>>]

\* The clock readings at which calls are made: a day before the start
\* date, the start date, and the days one week and one month after it.
Timeline ==
    <<0, StartDay, StartDay + WeeklyDays, StartDay + MonthlyDays,
      StartDay + MonthlyDays + 1, StartDay + MonthlyDays + WeeklyDays>>

\* a schedule ends never, or a week after it starts
EndDay == StartDay + WeeklyDays

\* time passes, to the next reading
Advance ==
    /\ advances < MaxAdvances
    /\ advances + 2 <= Len(Timeline)
    /\ now' = Timeline[advances + 2]
    /\ advances' = advances + 1
    /\ result' = NoResult
    /\ UNCHANGED <<invoices, payments, nextId, ret, recurring, db_type>>
    /\ UNCHANGED <<txVars, workerVars>>

ScheduleRows ==
    [total : {1},
     frequency : ScheduleFrequencies,
     start_date : {StartDay},
     end_date : {NULL, EndDay},
     last_generated : {NULL},
     is_active : BOOLEAN]


Init ==
    /\ invoices = {}
    /\ payments = {}
    /\ nextId = 1
    /\ ret = NoRet
    /\ recurring \in [Schedules -> ScheduleRows]
    /\ db_type \in {"postgresql", "mysql"}
    /\ now = 0
    /\ advances = 0
    /\ result = NoResult
    /\ tx = <<>>
    /\ is_running = FALSE
    /\ scheduler_thread = NoId
    /\ threads = <<>>
    /\ caller = <<>>
    /\ last = <<"none", FALSE>>

Next ==
    \/ \E faults \in [Schedules -> Faults] : ProcessRecurringInvoices(faults)
    \/ \E id \in Schedules \cup {UnknownSchedule}, fault \in Faults :
          ManualGenerate(id, fault)
    \/ Advance

Spec == Init /\ [][Next]_vars

\* the scheduler driven by its ticks alone
NextTicks ==
    \/ \E faults \in [Schedules -> Faults] : ProcessRecurringInvoices(faults)
    \/ Advance

SpecTicks == Init /\ [][NextTicks]_vars

\* ------------------------------------------------------------ the queries
\* RecurringInvoice.get_due_recurring_invoices(conn, check_date): the ids of
\* the rows the query returns; the three comparisons are of strings
GetDueRecurringInvoices(rec, check_date) ==
    {s \in DOMAIN rec :
        /\ rec[s].is_active
        /\ IsoLE(DateOnly(rec[s].start_date), check_date)
        /\ (rec[s].end_date = NULL \/ IsoLE(check_date, DateOnly(rec[s].end_date)))
        /\ (rec[s].last_generated = NULL
              \/ IsoLT(Stamp(rec[s].last_generated), check_date))}

\* the next_date get_upcoming_invoices computes for a row
UpcomingNextDate(r) ==
    IF r.last_generated = NULL THEN DateOnly(r.start_date)
    ELSE PlusDays(Stamp(r.last_generated), FrequencyDays(r.frequency))

\* get_upcoming_invoices(days_ahead): the entries it appends, before the sort
UpcomingInvoices(rec, t, days_ahead) ==
    {[recurring_id |-> s, next_generation_date |-> UpcomingNextDate(rec[s])] :
        s \in {x \in DOMAIN rec :
                  /\ rec[x].is_active
                  /\ (rec[x].last_generated = NULL
                        \/ FrequencyDays(rec[x].frequency) # NULL)
                  /\ IsoLE(Stamp(t), UpcomingNextDate(rec[x]))
                  /\ IsoLE(UpcomingNextDate(rec[x]), PlusDays(Stamp(t), days_ahead))}}

\* ------------------------------------------------- the ledger, call by call
InitLedger ==
    /\ invoices = {}
    /\ payments = {}
    /\ nextId = 1
    /\ ret = NoRet
    /\ recurring = <<>>
    /\ db_type \in {"postgresql", "mysql"}
    /\ now = 0
    /\ advances = 0
    /\ result = NoResult
    /\ tx = <<>>
    /\ is_running = FALSE
    /\ scheduler_thread = NoId
    /\ threads = <<>>
    /\ caller = <<>>
    /\ last = <<"none", FALSE>>

UnknownInvoice == MaxLedgerInvoices + 1

NextLedger ==
    \/ \E total \in Totals : CreateInvoice(total)
    \/ \E invoice_id \in 1..UnknownInvoice, amount \in Amounts :
          RecordPayment(invoice_id, amount)

SpecLedger == InitLedger /\ [][NextLedger]_vars

\* --------------------------------- record_payment, statement by statement
\* Each call runs on a connection of its own (get_db_connection opens one per
\* call; autocommit is off).  Under read-committed a statement sees the rows
\* committed before it started and the rows its own transaction wrote.  An
\* UPDATE of a row another open transaction has updated waits for that
\* transaction to end.  The store is PostgreSQL, where the foreign-key check
\* of the INSERT does not conflict with the UPDATE of the status column.
Conns == {1, 2}

TxAmounts == 1..MaxAmount

IdleTx == [pc |-> "idle", invoice_id |-> NoId, amount |-> 0, total_paid |-> 0,
           status |-> "none"]

\* uncommitted payment rows
OpenInserts == Cardinality({c \in Conns : tx[c].pc # "idle"})

\* INSERT INTO payments: a row only this connection sees until it commits.
\* An invoice_id that references no invoice raises; the connection is rolled
\* back and closed.
TxInsert(c, invoice_id, amount) ==
    /\ tx[c].pc = "idle"
    /\ Cardinality(payments) + OpenInserts < MaxPayments
    /\ IF invoice_id \notin InvoiceIds(invoices)
       THEN ret' = Ret("record_payment", "error", {invoice_id}) /\ UNCHANGED tx
       ELSE /\ tx' = [tx EXCEPT ![c] = [IdleTx EXCEPT !.pc = "inserted",
                                           !.invoice_id = invoice_id,
                                           !.amount = amount]]
            /\ UNCHANGED ret
    /\ UNCHANGED <<invoices, payments, nextId, schedVars, workerVars>>

\* SELECT total ...; SELECT SUM(amount) ...: the committed payments of the
\* invoice and this connection's own insert
TxRead(c) ==
    /\ tx[c].pc = "inserted"
    /\ tx' = [tx EXCEPT ![c].pc = "read",
                        ![c].total_paid =
                            TotalPaid(payments, tx[c].invoice_id) + tx[c].amount]
    /\ UNCHANGED <<ledgerVars, schedVars, workerVars>>

\* the row of the invoice is locked by another open transaction's UPDATE
RowLocked(c, invoice_id) ==
    \E d \in Conns \ {c} :
        tx[d].pc = "updated" /\ tx[d].status # "none" /\ tx[d].invoice_id = invoice_id

\* if total_paid >= total: UPDATE ... 'paid'  elif total_paid > 0: UPDATE ...
\* 'partially_paid'.  The value written was decided from the sum read before.
TxUpdate(c) ==
    /\ tx[c].pc = "read"
    /\ LET invoice == InvoiceById(invoices, tx[c].invoice_id)
           status == NewStatus("none", tx[c].total_paid, invoice.total)
       IN  /\ status # "none" => ~RowLocked(c, tx[c].invoice_id)
           /\ tx' = [tx EXCEPT ![c].pc = "updated", ![c].status = status]
    /\ UNCHANGED <<ledgerVars, schedVars, workerVars>>

\* conn.commit(): the payment and the status written become visible
TxCommit(c) ==
    /\ tx[c].pc = "updated"
    /\ payments' = payments \cup
                     {NewPayment(payments, tx[c].invoice_id, tx[c].amount)}
    /\ invoices' = IF tx[c].status = "none" THEN invoices
                   ELSE SetStatus(invoices, tx[c].invoice_id, tx[c].status)
    /\ tx' = [tx EXCEPT ![c] = IdleTx]
    /\ ret' = Ret("record_payment", "ok", {tx[c].invoice_id})
    /\ UNCHANGED <<nextId, schedVars, workerVars>>

InitTx ==
    /\ invoices = {}
    /\ payments = {}
    /\ nextId = 1
    /\ ret = NoRet
    /\ recurring = <<>>
    /\ db_type = "postgresql"
    /\ now = 0
    /\ advances = 0
    /\ result = NoResult
    /\ tx = [c \in Conns |-> IdleTx]
    /\ is_running = FALSE
    /\ scheduler_thread = NoId
    /\ threads = <<>>
    /\ caller = <<>>
    /\ last = <<"none", FALSE>>

NextTx ==
    \/ \E total \in Totals : CreateInvoice(total)
    \/ \E c \in Conns, invoice_id \in 1..UnknownInvoice, amount \in TxAmounts :
          TxInsert(c, invoice_id, amount)
    \/ \E c \in Conns : TxRead(c)
    \/ \E c \in Conns : TxUpdate(c)
    \/ \E c \in Conns : TxCommit(c)

SpecTx == InitTx /\ [][NextTx]_vars

\* ------------------------------------------------ start, stop, the worker
\* threads calling start() and stop() on the one scheduler instance
Callers == {1, 2}

IdleCaller == [pc |-> "idle", thread |-> NoId]

Live == {"check", "process", "except", "sleep"}

LiveWorkers == {t \in DOMAIN threads : threads[t] \in Live}

\* start() returns at once: if self.is_running: return
AlreadyRunningNever(running) == FALSE

AlreadyRunning(running) == running

\* start() up to its test of is_running
Start(c) ==
    /\ caller[c].pc = "idle"
    /\ last' = <<"start", is_running>>
    /\ IF AlreadyRunning(is_running)
       THEN UNCHANGED caller
       ELSE /\ Len(threads)
                 + Cardinality({d \in Callers : caller[d].pc = "starting"})
                 < MaxThreads
            /\ caller' = [caller EXCEPT ![c].pc = "starting"]
    /\ UNCHANGED <<is_running, scheduler_thread, threads>>
    /\ UNCHANGED <<ledgerVars, schedVars, txVars>>

\* the rest of start(): set the flag, create the thread, start it
StartThread(c) ==
    /\ caller[c].pc = "starting"
    /\ is_running' = TRUE
    /\ threads' = Append(threads, "check")
    /\ scheduler_thread' = Len(threads) + 1
    /\ caller' = [caller EXCEPT ![c] = IdleCaller]
    /\ UNCHANGED <<last, ledgerVars, schedVars, txVars>>

\* stop(): clear the flag; if there is a thread, join it for up to 5 seconds
Stop(c) ==
    /\ caller[c].pc = "idle"
    /\ last' = <<"stop", is_running>>
    /\ is_running' = FALSE
    /\ caller' = IF scheduler_thread # NoId
                 THEN [caller EXCEPT ![c] = [pc |-> "joining",
                                             thread |-> scheduler_thread]]
                 ELSE caller
    /\ UNCHANGED <<scheduler_thread, threads>>
    /\ UNCHANGED <<ledgerVars, schedVars, txVars>>

\* join(timeout=5) returns: the thread has ended, or the 5 seconds are over
\* while it sleeps or is inside a cycle
JoinReturns(c) ==
    /\ caller[c].pc = "joining"
    /\ threads[caller[c].thread] \in {"dead", "sleep", "process", "except"}
    /\ caller' = [caller EXCEPT ![c] = IdleCaller]
    /\ UNCHANGED <<is_running, scheduler_thread, threads, last>>
    /\ UNCHANGED <<ledgerVars, schedVars, txVars>>

\* while self.is_running:
WorkerCheck(t) ==
    /\ threads[t] = "check"
    /\ threads' = [threads EXCEPT ![t] = IF is_running THEN "process" ELSE "dead"]
    /\ UNCHANGED <<is_running, scheduler_thread, caller, last>>
    /\ UNCHANGED <<ledgerVars, schedVars, txVars>>

CycleEndsUncaught(raised) == IF raised THEN "dead" ELSE "sleep"

\* where the worker goes when the cycle ends: an exception out of
\* process_recurring_invoices is taken by the except clause of the loop
CycleEnds(raised) == IF raised THEN "except" ELSE "sleep"

\* try: self.process_recurring_invoices(), which returns or raises
WorkerProcess(t, raised) ==
    /\ threads[t] = "process"
    /\ threads' = [threads EXCEPT ![t] = CycleEnds(raised)]
    /\ UNCHANGED <<is_running, scheduler_thread, caller, last>>
    /\ UNCHANGED <<ledgerVars, schedVars, txVars>>

\* except Exception as e: print(...), and on to the sleep
WorkerExcept(t) ==
    /\ threads[t] = "except"
    /\ threads' = [threads EXCEPT ![t] = "sleep"]
    /\ UNCHANGED <<is_running, scheduler_thread, caller, last>>
    /\ UNCHANGED <<ledgerVars, schedVars, txVars>>

\* time.sleep(check_interval) is over
WorkerWake(t) ==
    /\ threads[t] = "sleep"
    /\ threads' = [threads EXCEPT ![t] = "check"]
    /\ UNCHANGED <<is_running, scheduler_thread, caller, last>>
    /\ UNCHANGED <<ledgerVars, schedVars, txVars>>

InitWorker ==
    /\ invoices = {}
    /\ payments = {}
    /\ nextId = 1
    /\ ret = NoRet
    /\ recurring = <<>>
    /\ db_type \in {"postgresql", "mysql"}
    /\ now = 0
    /\ advances = 0
    /\ result = NoResult
    /\ tx = <<>>
    /\ is_running = FALSE
    /\ scheduler_thread = NoId
    /\ threads = <<>>
    /\ caller = [c \in Callers |-> IdleCaller]
    /\ last = <<"none", FALSE>>

NextWorker ==
    \/ \E c \in Callers : Start(c)
    \/ \E c \in Callers : StartThread(c)
    \/ \E c \in Callers : Stop(c)
    \/ \E c \in Callers : JoinReturns(c)
    \/ \E t \in DOMAIN threads : WorkerCheck(t)
    \/ \E t \in DOMAIN threads, raised \in BOOLEAN : WorkerProcess(t, raised)
    \/ \E t \in DOMAIN threads : WorkerExcept(t)
    \/ \E t \in DOMAIN threads : WorkerWake(t)

SpecWorker == InitWorker /\ [][NextWorker]_vars

\* one step of worker thread t
WorkerStep(t) ==
    /\ t \in DOMAIN threads
    /\ \/ WorkerCheck(t)
       \/ \E raised \in BOOLEAN : WorkerProcess(t, raised)
       \/ WorkerExcept(t)
       \/ WorkerWake(t)

\* Threads that can run are scheduled: a worker takes its next step (a sleep
\* ends, a cycle returns), and a caller inside start() or stop() finishes
\* the call.  Nothing obliges anyone to call start() or stop().
FairWorker ==
    /\ \A t \in 1..MaxThreads : WF_vars(WorkerStep(t))
    /\ \A c \in Callers : WF_vars(StartThread(c)) /\ WF_vars(JoinReturns(c))

SpecWorkerFair == SpecWorker /\ FairWorker

\* --------------------------------------------------------------- claims
\* the schedule is among the rows a tick at t selects and is due at t
DueAt(rec, s, t) ==
    s \in SelectActive(rec, t) /\ ShouldGenerateInvoice(rec[s], t)

GeneratedFor(invs, s) == {i \in invs : i.recurring_id = s}

RecurringIds(entries) == {entries[k].recurring_id : k \in DOMAIN entries}

SeqRange(q) == {q[k] : k \in DOMAIN q}

\* the status the sum of an invoice's payments calls for
DerivedStatus(total_paid, total) ==
    IF total_paid >= total THEN "paid"
    ELSE IF total_paid > 0 THEN "partially_paid"
    ELSE "unpaid"

HasPayments(i) == \E p \in payments : p.invoice_id = i.id

\* C1: after any sequence of record_payment calls against an invoice, its
\* status is paid if the sum of its payment amounts is at least its total,
\* partially_paid if the sum lies strictly between 0 and the total, and
\* unpaid otherwise.
C1_StatusFollowsPaymentSum ==
    \A i \in invoices :
        HasPayments(i) =>
            i.status = DerivedStatus(TotalPaid(payments, i.id), i.total)

\* C2: once two record_payment calls that ran concurrently on one invoice
\* have both committed, the status of the invoice is the one derived from
\* the sum of both payments.
C2_ConcurrentPaymentsSettle ==
    (\A c \in Conns : tx[c].pc = "idle") =>
        \A i \in invoices :
            HasPayments(i) =>
                i.status = DerivedStatus(TotalPaid(payments, i.id), i.total)

\* C3: a schedule never has two invoices generated for the same due period:
\* any two invoices generated for one schedule lie at least one period of
\* its frequency apart.
C3_OneInvoicePerPeriod ==
    \A s \in Schedules : \A i, j \in GeneratedFor(invoices, s) :
        i # j /\ i.created_at <= j.created_at =>
            j.created_at - i.created_at >= FrequencyDays(recurring[s].frequency)

\* C4: when process_recurring_invoices runs twice in immediate succession
\* with no time passing, each schedule gets at most one invoice across the
\* two runs: the second run stores nothing for a schedule the first run
\* stored an invoice for.
C4_SecondRunGeneratesNothing ==
    [][(result.call = "process" /\ result'.call = "process" /\ now' = now) =>
        \A s \in Schedules :
            LET first == {i \in GeneratedFor(invoices, s) :
                            \E k \in DOMAIN result.generated :
                                result.generated[k].invoice_id = i.id}
                second == GeneratedFor(invoices', s) \ invoices
            IN  Cardinality(first) + Cardinality(second) <= 1]_vars

\* C5: a schedule whose generation throws during a tick keeps its prior
\* watermark in the store the tick leaves, and no invoice created for it in
\* that tick is persisted.
C5_FailedScheduleLeavesNoTrace ==
    [][result'.call = "process" =>
        \A s \in SeqRange(result'.errors) :
            /\ recurring'[s].last_generated = recurring[s].last_generated
            /\ GeneratedFor(invoices', s) \subseteq invoices]_vars

\* C6: within one tick a failure while generating for schedule A never
\* blocks a sibling: every other schedule B that is due at the tick and has
\* no failing statement of its own gets its invoice and its watermark
\* advanced in that tick, and A is recorded in the tick's error list.
C6_FailureDoesNotBlockSiblings ==
    [][\A faults \in [Schedules -> Faults] :
        ProcessRecurringInvoices(faults) =>
            \A a, b \in Schedules :
                (a # b /\ DueAt(recurring, a, now) /\ faults[a] # "none"
                    /\ DueAt(recurring, b, now) /\ faults[b] = "none") =>
                /\ a \in SeqRange(result'.errors)
                /\ GeneratedFor(invoices', b) \ invoices # {}
                /\ recurring'[b].last_generated = now]_vars

\* C7: the watermark of every schedule is monotonically non-decreasing over
\* ticks and manual generations: no step replaces it by an earlier value or
\* resets it to null.
C7_WatermarkMonotone ==
    [][\A s \in Schedules :
        recurring[s].last_generated # NULL =>
            /\ recurring'[s].last_generated # NULL
            /\ recurring'[s].last_generated >= recurring[s].last_generated]_vars

\* a watermark that was set has been advanced to a later clock reading
C7_Witness ==
    \E s \in Schedules : \E i, j \in GeneratedFor(invoices, s) :
        /\ i.created_at < j.created_at
        /\ recurring[s].last_generated = j.created_at

CheckDates == {DateOnly(Timeline[k]) : k \in DOMAIN Timeline}
                 \cup {Stamp(Timeline[k]) : k \in DOMAIN Timeline}

DaysAhead == {0, WeeklyDays, MonthlyDays}

\* C8: a schedule with is_active = false is never reported due, whatever
\* its dates and the clock: neither the due-list query nor the upcoming list
\* returns it, and no tick generates an invoice for it.
C8_InactiveNeverDue ==
    /\ [](\A s \in Schedules : ~recurring[s].is_active =>
            /\ \A d \in CheckDates : s \notin GetDueRecurringInvoices(recurring, d)
            /\ \A n \in DaysAhead :
                  \A e \in UpcomingInvoices(recurring, now, n) : e.recurring_id # s)
    /\ [][result'.call = "process" =>
            \A s \in Schedules : ~recurring[s].is_active =>
                /\ s \notin RecurringIds(result'.generated)
                /\ GeneratedFor(invoices', s) \subseteq invoices]_vars

\* a tick has run while an inactive schedule had reached its start date and
\* not passed its end date
C8_Witness ==
    /\ result.call = "process"
    /\ \E s \in Schedules :
          /\ ~recurring[s].is_active
          /\ (recurring[s].end_date = NULL
                \/ IsoLE(Stamp(now), DateOnly(recurring[s].end_date)))
          /\ ShouldGenerateInvoice(recurring[s], now)
          /\ \E b \in Schedules : b \in RecurringIds(result.generated)

\* C9: a scheduler instance has at most one live background worker at any
\* time, whatever start() and stop() calls are made and however they
\* interleave with the worker.
C9_AtMostOneLiveWorker == Cardinality(LiveWorkers) <= 1

\* C10: start() on a scheduler that is already running spawns no worker and
\* leaves is_running and the worker reference unchanged; stop() on a stopped
\* scheduler leaves the state unchanged and affects no worker.
C10_StartStopNoOps ==
    [][\A c \in Callers :
        /\ (Start(c) /\ is_running) =>
              /\ UNCHANGED <<is_running, scheduler_thread, threads>>
              /\ caller'[c] = IdleCaller
        /\ (Stop(c) /\ ~is_running) =>
              UNCHANGED <<is_running, scheduler_thread, threads>>]_vars

\* start() has just been called on a running scheduler whose worker is alive
C10_Witness ==
    /\ last = <<"start", TRUE>>
    /\ is_running
    /\ scheduler_thread \in LiveWorkers
    /\ \A c \in Callers : caller[c] = IdleCaller

\* C11: after stop() is called on a running scheduler the scheduler is
\* stopped, and the worker that was running eventually leaves its loop and
\* ends, whatever calls follow.
C11_StoppedWorkerExits ==
    \A t \in 1..MaxThreads :
        (/\ last = <<"stop", TRUE>>
         /\ scheduler_thread = t
         /\ \E c \in Callers : caller[c] = [pc |-> "joining", thread |-> t])
            ~> (t \in DOMAIN threads /\ threads[t] = "dead")

\* ------------------------------------------------- get_upcoming_invoices
\* the list get_upcoming_invoices appends to, in the order of the rows
UpcomingAppended(rec, t, days_ahead) ==
    LET ids == InOrder({e.recurring_id : e \in UpcomingInvoices(rec, t, days_ahead)})
    IN  [k \in 1..Len(ids) |->
            [recurring_id |-> ids[k],
             next_generation_date |-> UpcomingNextDate(rec[ids[k]])]]

\* list.sort is stable: an entry goes behind the entries whose key is not
\* greater than its own
InsertByNextDate(e, sorted) ==
    LET k == Cardinality({i \in DOMAIN sorted :
                 IsoLE(sorted[i].next_generation_date, e.next_generation_date)})
    IN  SubSeq(sorted, 1, k) \o <<e>> \o SubSeq(sorted, k + 1, Len(sorted))

SortByNextDateNone(q) == q

\* upcoming.sort(key=lambda x: x['next_generation_date'])
RECURSIVE SortByNextDate(_)
SortByNextDate(q) ==
    IF q = <<>> THEN <<>>
    ELSE InsertByNextDate(q[Len(q)], SortByNextDate(SubSeq(q, 1, Len(q) - 1)))

\* get_upcoming_invoices(days_ahead): one SELECT, no write
GetUpcomingInvoices(days_ahead) ==
    /\ result' = [call |-> "upcoming", success |-> TRUE, generated |-> <<>>,
                  errors |-> <<>>, days_ahead |-> days_ahead,
                  upcoming |-> SortByNextDate(UpcomingAppended(recurring, now, days_ahead))]
    /\ UNCHANGED <<ledgerVars, recurring, db_type, now, advances, txVars, workerVars>>

NextUpcoming ==
    \/ \E faults \in [Schedules -> Faults] : ProcessRecurringInvoices(faults)
    \/ Advance
    \/ \E days_ahead \in DaysAhead : GetUpcomingInvoices(days_ahead)

SpecUpcoming == Init /\ [][NextUpcoming]_vars

\* C12: get_upcoming_invoices never mutates state: when it returns, the
\* invoices, the payments and every schedule (watermark and active flag
\* included) are as before and no invoice was generated; every entry of the
\* list it returns is an active schedule with its next generation date in
\* [now, now + days_ahead], and the list is sorted ascending by that date.
C12_UpcomingReadOnlySorted ==
    [][result'.call = "upcoming" =>
        LET up == result'.upcoming
        IN  /\ UNCHANGED <<invoices, payments, recurring, nextId>>
            /\ \A k \in DOMAIN up :
                  /\ up[k].recurring_id \in DOMAIN recurring
                  /\ recurring[up[k].recurring_id].is_active
                  /\ up[k].next_generation_date
                        = UpcomingNextDate(recurring[up[k].recurring_id])
                  /\ IsoLE(Stamp(now), up[k].next_generation_date)
                  /\ IsoLE(up[k].next_generation_date,
                           PlusDays(Stamp(now), result'.days_ahead))
            /\ \A k \in 1..(Len(up) - 1) :
                  IsoLE(up[k].next_generation_date, up[k + 1].next_generation_date)
       ]_vars

\* the list returned holds two schedules, the later row first
C12_Witness ==
    /\ result.call = "upcoming"
    /\ Len(result.upcoming) = 2
    /\ result.upcoming[1].recurring_id > result.upcoming[2].recurring_id
    /\ result.upcoming[1].next_generation_date # result.upcoming[2].next_generation_date

\* ------------------------------------------------------------ the calendar
\* datetime.date, with a day counted from 1 January of the first year
Years == 2024..2030

IsLeap(y) == (y % 4 = 0 /\ y % 100 # 0) \/ y % 400 = 0

DaysInMonth(y, m) ==
    CASE m \in {4, 6, 9, 11} -> 30
      [] m = 2 -> IF IsLeap(y) THEN 29 ELSE 28
      [] OTHER -> 31

DaysInYear(y) == IF IsLeap(y) THEN 366 ELSE 365

RECURSIVE DaysBeforeYear(_)
DaysBeforeYear(y) ==
    IF y \notin Years \/ y - 1 \notin Years THEN 0
    ELSE DaysBeforeYear(y - 1) + DaysInYear(y - 1)

RECURSIVE DaysBeforeMonth(_, _)
DaysBeforeMonth(y, m) ==
    IF m <= 1 THEN 0 ELSE DaysBeforeMonth(y, m - 1) + DaysInMonth(y, m - 1)

\* date(y, m, d) is a date
ValidDate(y, m, d) == y \in Years /\ m \in 1..12 /\ d \in 1..DaysInMonth(y, m)

\* the day number of date(y, m, d)
Ordinal(y, m, d) == DaysBeforeYear(y) + DaysBeforeMonth(y, m) + d

\* the year, month and day of a day number
FromOrdinal(n) ==
    LET y == CHOOSE z \in Years :
                 DaysBeforeYear(z) < n /\ n <= DaysBeforeYear(z) + DaysInYear(z)
        k == n - DaysBeforeYear(y)
        m == CHOOSE z \in 1..12 :
                 DaysBeforeMonth(y, z) < k /\ k <= DaysBeforeMonth(y, z) + DaysInMonth(y, z)
    IN  [year |-> y, month |-> m, day |-> k - DaysBeforeMonth(y, m)]

\* what a call returned, or that it raised
Returned(value) == [raised |-> "none", value |-> value]

Raised(exception) == [raised |-> exception, value |-> DateOnly(NULL)]

\* the same day in another month, clamped to the last day of that month
ReplaceClamped(last_d, year, month) ==
    LET d == IF last_d.day <= DaysInMonth(year, month) THEN last_d.day
             ELSE DaysInMonth(year, month)
    IN  Returned(DateOnly(Ordinal(year, month, d)))

\* date.replace(year=..., month=...): ValueError when the day is not in the month
Replace(last_d, year, month) ==
    IF ValidDate(year, month, last_d.day)
    THEN Returned(DateOnly(Ordinal(year, month, last_d.day)))
    ELSE Raised("ValueError")

\* RecurringInvoice.calculate_next_date(last_date, frequency): the time of day
\* of last_date is dropped (.date()), the result is a date alone
CalculateNextDate(last_date, frequency) ==
    LET last_d == FromOrdinal(last_date[1])
    IN  CASE frequency = "weekly" -> Returned(DateOnly(last_date[1] + WeeklyDays))
          [] frequency = "monthly" ->
                IF last_d.month = 12 THEN Replace(last_d, last_d.year + 1, 1)
                ELSE Replace(last_d, last_d.year, last_d.month + 1)
          [] frequency = "quarterly" ->
                IF last_d.month + 3 > 12
                THEN Replace(last_d, last_d.year + 1, last_d.month + 3 - 12)
                ELSE Replace(last_d, last_d.year, last_d.month + 3)
          [] frequency = "yearly" -> Replace(last_d, last_d.year + 1, last_d.month)
          [] OTHER -> Raised("ValueError")

\* ------------------------------------------- calculate_next_date, called
MaxApplications == 2   \* times the result is fed back as the next anchor

\* every date of the first year
Anchors == {DateOnly(n) : n \in 1..DaysInYear(2024)}

NextDateResult(last_date, frequency, applications) ==
    [call |-> "calculate_next_date", success |-> TRUE, generated |-> <<>>,
     errors |-> <<>>, last_date |-> last_date, frequency |-> frequency,
     next_date |-> CalculateNextDate(last_date, frequency),
     applications |-> applications]

\* calculate_next_date(last_date, frequency); the function keeps no state, so
\* a behaviour follows one call and the calls chained to it
CalcNextDate(last_date, frequency) ==
    /\ result.call = "none"
    /\ result' = NextDateResult(last_date, frequency, 1)
    /\ UNCHANGED <<ledgerVars, recurring, db_type, now, advances, txVars, workerVars>>

\* calculate_next_date applied to the date it returned last
CalcNextDateAgain ==
    /\ result.call = "calculate_next_date"
    /\ result.next_date.raised = "none"
    /\ result.applications < MaxApplications
    /\ result' = NextDateResult(result.next_date.value, result.frequency,
                                result.applications + 1)
    /\ UNCHANGED <<ledgerVars, recurring, db_type, now, advances, txVars, workerVars>>

NextNextDate ==
    \/ \E last_date \in Anchors, frequency \in FREQUENCIES :
          CalcNextDate(last_date, frequency)
    \/ CalcNextDateAgain

SpecNextDate == InitLedger /\ [][NextNextDate]_vars

\* C15: calculate_next_date is total on day-of-month overflow anchors: for
\* every valid anchor date and every frequency it returns a date without
\* raising (also for a monthly or quarterly anchor on day 29 to 31, applied
\* repeatedly), and for a yearly anchor on 29 February it returns 28 February
\* of the next year.
C15_NextDateTotal ==
    result.call = "calculate_next_date" =>
        /\ result.next_date.raised = "none"
        /\ LET a == FromOrdinal(result.last_date[1])
           IN  (result.frequency = "yearly" /\ a.month = 2 /\ a.day = 29) =>
                  result.next_date.value = DateOnly(Ordinal(a.year + 1, 2, 28))

\* ------------------------------------- the scheduler on calendar dates
\* one active schedule that starts on 15 January 2024 and never ends
CalendarRows ==
    [total : {1},
     frequency : FREQUENCIES,
     start_date : {Ordinal(2024, 1, 15)},
     end_date : {NULL},
     last_generated : {NULL},
     is_active : {TRUE}]

\* the days the clock is read on
ClockDates ==
    {Ordinal(2024, 1, 20), Ordinal(2024, 1, 27), Ordinal(2024, 2, 10),
     Ordinal(2024, 2, 16), Ordinal(2024, 2, 19), Ordinal(2024, 2, 20),
     Ordinal(2024, 4, 19), Ordinal(2024, 4, 20),
     Ordinal(2025, 1, 19), Ordinal(2025, 1, 20)}

InitCalendar ==
    /\ invoices = {}
    /\ payments = {}
    /\ nextId = 1
    /\ ret = NoRet
    /\ recurring \in [{1} -> CalendarRows]
    /\ db_type \in {"postgresql", "mysql"}
    /\ now = Ordinal(2024, 1, 14)
    /\ advances = 0
    /\ result = NoResult
    /\ tx = <<>>
    /\ is_running = FALSE
    /\ scheduler_thread = NoId
    /\ threads = <<>>
    /\ caller = <<>>
    /\ last = <<"none", FALSE>>

\* time passes, to a later day
AdvanceTo(day) ==
    /\ advances < MaxAdvances
    /\ day > now
    /\ now' = day
    /\ advances' = advances + 1
    /\ result' = NoResult
    /\ UNCHANGED <<ledgerVars, recurring, db_type, txVars, workerVars>>

NextCalendar ==
    \/ \E faults \in [Schedules -> Faults] : ProcessRecurringInvoices(faults)
    \/ \E day \in ClockDates : AdvanceTo(day)

SpecCalendar == InitCalendar /\ [][NextCalendar]_vars

\* the schedule of the scenario: monthly, started 15 January 2024, and the
\* due decision for it at the present clock reading
MonthlyFromJan15 ==
    /\ recurring[1].frequency = "monthly"
    /\ recurring[1].start_date = Ordinal(2024, 1, 15)

\* The schedule is due on 20 January; generating then sets the watermark to
\* 20 January; with that watermark the schedule is not due on 10 February, is
\* due on the day probe exactly if probeDue, and is due on dueDay.
MonthlyScenario(probe, probeDue, dueDay) ==
    MonthlyFromJan15 =>
        /\ (recurring[1].last_generated = NULL /\ now = Ordinal(2024, 1, 20)) =>
              DueAt(recurring, 1, now)
        /\ (/\ result.call = "process"
            /\ now = Ordinal(2024, 1, 20)
            /\ 1 \in RecurringIds(result.generated)
            /\ 1 \notin SeqRange(result.errors)) =>
              recurring[1].last_generated = Ordinal(2024, 1, 20)
        /\ recurring[1].last_generated = Ordinal(2024, 1, 20) =>
              /\ now = Ordinal(2024, 2, 10) => ~DueAt(recurring, 1, now)
              /\ now = probe => (DueAt(recurring, 1, now) <=> probeDue)
              /\ now = dueDay => DueAt(recurring, 1, now)

\* C13: a monthly schedule with start_date 2024-01-15 and no watermark is
\* due on 2024-01-20; after generating on 2024-01-20 the watermark is
\* 2024-01-20, and then the schedule is not due on 2024-02-10 and is due on
\* 2024-02-16.
C13_MonthlyScenarioAsStated ==
    MonthlyScenario(Ordinal(2024, 2, 16), TRUE, Ordinal(2024, 2, 16))

\* C13 as amended: ... not due on 2024-02-10, not due on 2024-02-16 either,
\* and due on 2024-02-20.
C13_MonthlyScenarioAmended ==
    MonthlyScenario(Ordinal(2024, 2, 16), FALSE, Ordinal(2024, 2, 20))

\* the schedule was generated on 20 January and the clock reads 20 February
C13_Witness ==
    /\ MonthlyFromJan15
    /\ recurring[1].last_generated = Ordinal(2024, 1, 20)
    /\ \E i \in GeneratedFor(invoices, 1) : i.created_at = Ordinal(2024, 1, 20)
    /\ now = Ordinal(2024, 2, 20)
    /\ DueAt(recurring, 1, now)

\* nextDate of the specification: the calendar-exact increment of an anchor,
\* the time of day kept, a day that does not exist clamped to the month's last
NextDate(anchor, frequency) ==
    LET a == FromOrdinal(anchor[1])
        m == IF frequency = "monthly" THEN a.month + 1
             ELSE IF frequency = "quarterly" THEN a.month + 3
             ELSE a.month
        y == IF frequency = "yearly" THEN a.year + 1 ELSE a.year
    IN  IF frequency = "weekly" THEN PlusDays(anchor, 7)
        ELSE IF m > 12
             THEN <<ReplaceClamped(a, y + 1, m - 12).value[1], anchor[2]>>
             ELSE <<ReplaceClamped(a, y, m).value[1], anchor[2]>>

\* C14: for every schedule with a watermark and every frequency, the due
\* decision of the scheduler is asOfDate >= nextDate(last_generated,
\* frequency) and the next date get_upcoming_invoices computes is that
\* nextDate, the calendar-exact increment (+7 days, +1 month, +3 months,
\* +1 year); no fixed 30, 90 or 365 days.
C14_CalendarExactDue ==
    \A s \in DOMAIN recurring :
        recurring[s].last_generated # NULL =>
            LET next == NextDate(Stamp(recurring[s].last_generated),
                                 recurring[s].frequency)
            IN  /\ ShouldGenerateInvoice(recurring[s], now) <=> IsoLE(next, Stamp(now))
                /\ UpcomingNextDate(recurring[s]) = next

\* C16: the end-date bound is inclusive: a schedule with an end_date that is
\* otherwise due is reported due by the due-list query and generated by a
\* tick at every time up to and on the end_date day, and is never reported
\* due or generated by a tick after end_date.  (The query is asked with a
\* date, its default; the tick reads the clock.)
C16_EndDateInclusive ==
    /\ [](\A s \in Schedules : \A d \in {c \in CheckDates : c[2] = 0} :
            (/\ recurring[s].end_date # NULL
             /\ recurring[s].is_active
             /\ IsoLE(DateOnly(recurring[s].start_date), d)
             /\ (recurring[s].last_generated = NULL
                   \/ IsoLT(Stamp(recurring[s].last_generated), d))) =>
                (s \in GetDueRecurringInvoices(recurring, d)
                    <=> d[1] <= recurring[s].end_date))
    /\ [][result'.call = "process" =>
            \A s \in Schedules :
                recurring[s].end_date # NULL =>
                    /\ now > recurring[s].end_date =>
                          /\ s \notin RecurringIds(result'.generated)
                          /\ GeneratedFor(invoices', s) \subseteq invoices
                    /\ (/\ now <= recurring[s].end_date
                        /\ recurring[s].is_active
                        /\ ShouldGenerateInvoice(recurring[s], now)
                        /\ result'.errors = <<>>) =>
                          /\ s \in RecurringIds(result'.generated)
                          /\ GeneratedFor(invoices', s) \ invoices # {}]_vars

\* C17: record_payment with an amount <= 0 fails with a validation error,
\* stores no payment and leaves the invoice status unchanged; so every
\* payment in the store has an amount > 0.
C17_NonPositiveAmountRefused == \A p \in payments : p.amount > 0

Statuses == {"paid", "unpaid", "partially_paid"}

\* dashboard button "Mark Paid", shown for an unpaid invoice
MarkPaid(id) ==
    /\ id \in InvoiceIds(invoices)
    /\ InvoiceById(invoices, id).status = "unpaid"
    /\ invoices' = SetStatus(invoices, id, "paid")
    /\ ret' = Ret("mark_paid", "ok", {id})
    /\ UNCHANGED <<payments, nextId, schedVars, txVars, workerVars>>

\* dashboard button "Mark Unpaid", shown for every other invoice
MarkUnpaid(id) ==
    /\ id \in InvoiceIds(invoices)
    /\ InvoiceById(invoices, id).status # "unpaid"
    /\ invoices' = SetStatus(invoices, id, "unpaid")
    /\ ret' = Ret("mark_unpaid", "ok", {id})
    /\ UNCHANGED <<payments, nextId, schedVars, txVars, workerVars>>

\* bulk_update_status(conn, invoice_ids, new_status): ids without a row are
\* reported in the result and skipped
BulkUpdateStatus(invoice_ids, new_status) ==
    /\ invoices' = {IF i.id \in invoice_ids THEN [i EXCEPT !.status = new_status]
                    ELSE i : i \in invoices}
    /\ ret' = Ret("bulk_update_status", "ok", invoice_ids)
    /\ UNCHANGED <<payments, nextId, schedVars, txVars, workerVars>>

NextOverride ==
    \/ \E total \in Totals : CreateInvoice(total)
    \/ \E invoice_id \in 1..UnknownInvoice, amount \in Amounts :
          RecordPayment(invoice_id, amount)
    \/ \E id \in 1..MaxLedgerInvoices : MarkPaid(id)
    \/ \E id \in 1..MaxLedgerInvoices : MarkUnpaid(id)
    \/ \E invoice_ids \in (SUBSET (1..UnknownInvoice)) \ {{}}, new_status \in Statuses :
          BulkUpdateStatus(invoice_ids, new_status)

SpecOverride == InitLedger /\ [][NextOverride]_vars

OverrideCalls == {"mark_paid", "mark_unpaid", "bulk_update_status"}

\* C19: after a manual status override on an invoice (mark paid, mark
\* unpaid, bulk_update_status) the next record_payment on that invoice sets
\* the status from the payment sum alone: paid if sum >= total,
\* partially_paid if 0 < sum < total, unpaid otherwise, whatever the
\* override had set.
C19_PaymentAfterOverrideRecomputes ==
    [][\A i \in invoices :
        (/\ ret.call \in OverrideCalls
         /\ i.id \in ret.invoice_ids
         /\ ret' = Ret("record_payment", "ok", {i.id})) =>
            InvoiceById(invoices', i.id).status
                = DerivedStatus(TotalPaid(payments', i.id), i.total)]_vars

\* C20: manual_generate on an existing schedule stores exactly one new
\* unpaid invoice for that schedule and advances that schedule's watermark
\* to the generation time in the same commit, every other schedule
\* unchanged; if it fails, neither an invoice nor a watermark change is
\* stored.
C20_ManualGenerateContract ==
    [][result'.call = "manual" =>
        IF result'.success
        THEN LET id == result'.generated[1].recurring_id
                 new == invoices' \ invoices
             IN  /\ id \in Schedules
                 /\ invoices \subseteq invoices'
                 /\ Cardinality(new) = 1
                 /\ \A i \in new :
                       /\ i.id = result'.generated[1].invoice_id
                       /\ i.id \notin InvoiceIds(invoices)
                       /\ i.recurring_id = id
                       /\ i.status = "unpaid"
                       /\ i.created_at = now
                 /\ recurring' = [recurring EXCEPT ![id].last_generated = now]
        ELSE invoices' = invoices /\ recurring' = recurring]_vars

\* manual_generate has just stored an invoice for a schedule, beside a
\* schedule that has a different watermark or none
C20_Witness ==
    /\ result.call = "manual"
    /\ result.success
    /\ \E i \in invoices : i.id = result.generated[1].invoice_id
    /\ recurring[result.generated[1].recurring_id].last_generated = now
    /\ \E s \in Schedules : recurring[s].last_generated # now

\* ------------------------------------------------------- invoice deletion
OnDeleteNoAction(pays, invoice_ids) == pays

\* FOREIGN KEY (invoice_id) REFERENCES invoices (id) ON DELETE CASCADE, with
\* foreign keys enforced on every connection: the payments left when the
\* invoices invoice_ids are deleted
OnDeleteCascade(pays, invoice_ids) ==
    {p \in pays : p.invoice_id \notin invoice_ids}

\* dashboard button "Delete": DELETE FROM invoices WHERE id = ?, commit
DeleteInvoice(id) ==
    /\ id \in InvoiceIds(invoices)
    /\ invoices' = {i \in invoices : i.id # id}
    /\ payments' = OnDeleteCascade(payments, {id})
    /\ ret' = Ret("delete_invoice", "ok", {id})
    /\ UNCHANGED <<nextId, schedVars, txVars, workerVars>>

\* bulk_delete_invoices(conn, invoice_ids): for each id the payments of the
\* invoice are deleted, then the invoice; an id without a row is reported in
\* the result and skipped; one commit at the end
BulkDeleteInvoices(invoice_ids) ==
    /\ invoices' = {i \in invoices : i.id \notin invoice_ids}
    /\ payments' = OnDeleteCascade({p \in payments : p.invoice_id \notin invoice_ids},
                                   invoice_ids \cap InvoiceIds(invoices))
    /\ ret' = Ret("bulk_delete_invoices", "ok", invoice_ids)
    /\ UNCHANGED <<nextId, schedVars, txVars, workerVars>>

\* Neither deletion reads an invoice's total, so one total stands for all.
NextDelete ==
    \/ CreateInvoice(MaxTotal)
    \/ \E invoice_id \in 1..UnknownInvoice, amount \in Amounts :
          RecordPayment(invoice_id, amount)
    \/ \E id \in 1..MaxLedgerInvoices : DeleteInvoice(id)
    \/ \E invoice_ids \in (SUBSET (1..UnknownInvoice)) \ {{}} :
          BulkDeleteInvoices(invoice_ids)

SpecDelete == InitLedger /\ [][NextDelete]_vars

\* C21: over creations, payments and deletions every payment references an
\* existing invoice; a deleted invoice leaves no payment behind; and a
\* payment that stays in the store keeps its amount and its invoice.
C21_PaymentsReferenceInvoices ==
    /\ [](\A p \in payments : p.invoice_id \in InvoiceIds(invoices))
    /\ [][/\ \A p \in payments' :
               p.invoice_id \notin InvoiceIds(invoices) \ InvoiceIds(invoices')
          /\ \A p \in payments, q \in payments' : q.id = p.id => q = p]_vars

\* an invoice has been deleted while another invoice keeps its payment
C21_Witness ==
    /\ ret.call \in {"delete_invoice", "bulk_delete_invoices"}
    /\ \E id \in ret.invoice_ids : id < nextId /\ id \notin InvoiceIds(invoices)
    /\ payments # {}

\* --------------------------------------------------------- calculate_tax
\* A float is modelled by the decimal it stands for, as a whole number of
\* Fine-ths of a currency unit; a hundredth is CentFine of them.
Fine == 100000
CentFine == 1000

MaxTaxAmount == 40   \* amounts are 0.000 .. MaxTaxAmount / 1000, and 100
MaxTaxRate == 20     \* rates are 0 .. MaxTaxRate percent

\* the base amount of the documented example, 100
ScenarioAmount == 100 * Fine

TaxAmounts == {a * (Fine \div 1000) : a \in 0..MaxTaxAmount} \cup {ScenarioAmount}
TaxRates == 0..MaxTaxRate

Round2Down(x) == {x \div CentFine}

\* round(x, 2), in hundredths: the nearest hundredth.  A decimal that lies
\* halfway between two hundredths is stored as a binary float just above or
\* just below the halfway point (or on it, where round takes the even
\* neighbour), so either neighbour can be the result.
Round2(x) ==
    LET q == x \div CentFine
        r == x % CentFine
    IN  IF 2 * r < CentFine THEN {q}
        ELSE IF 2 * r > CentFine THEN {q + 1}
        ELSE {q, q + 1}

\* TaxCalculator.calculate_tax(amount, tax_rate)
CalculateTax(amount, tax_rate) ==
    /\ result.call = "none"
    /\ LET tax_amount == (amount * tax_rate) \div 100
           total == amount + tax_amount
       IN  \E subtotal \in Round2(amount), tax \in Round2(tax_amount),
              rounded_total \in Round2(total) :
              result' = [call |-> "calculate_tax", success |-> TRUE,
                         generated |-> <<>>, errors |-> <<>>,
                         amount |-> amount, tax_rate |-> tax_rate,
                         subtotal |-> subtotal, tax_amount |-> tax,
                         total |-> rounded_total]
    /\ UNCHANGED <<ledgerVars, recurring, db_type, now, advances, txVars, workerVars>>

NextTax == \E amount \in TaxAmounts, tax_rate \in TaxRates : CalculateTax(amount, tax_rate)

SpecTax == InitLedger /\ [][NextTax]_vars

\* c hundredths is x rounded to 2 decimals: no hundredth is nearer to x
IsRounded2(c, x) ==
    /\ 2 * (c * CentFine - x) <= CentFine
    /\ 2 * (x - c * CentFine) <= CentFine

\* tax_amount and total are the exact amount * rate / 100 and
\* amount + amount * rate / 100, each rounded to 2 decimals
TaxAndTotalRounded ==
    /\ IsRounded2(result.tax_amount, (result.amount * result.tax_rate) \div 100)
    /\ IsRounded2(result.total,
                  result.amount + (result.amount * result.tax_rate) \div 100)

\* C22 as stated: calculate_tax returns subtotal = amount, tax_amount =
\* amount * rate / 100 rounded to 2 decimals and total = amount + tax_amount
\* rounded to 2 decimals, for every non-negative amount and rate.
C22_TaxAsStated ==
    result.call = "calculate_tax" =>
        /\ result.subtotal * CentFine = result.amount
        /\ TaxAndTotalRounded

\* C22: calculate_tax returns subtotal = amount rounded to 2 decimals,
\* tax_amount = amount * rate / 100 rounded to 2 decimals and total =
\* amount + amount * rate / 100 rounded to 2 decimals; amount 100 at rate 15
\* gives 100.00, 15.00 and 115.00.
C22_TaxRounded ==
    result.call = "calculate_tax" =>
        /\ IsRounded2(result.subtotal, result.amount)
        /\ TaxAndTotalRounded
        /\ (result.amount = ScenarioAmount /\ result.tax_rate = 15) =>
              /\ result.subtotal = 10000
              /\ result.tax_amount = 1500
              /\ result.total = 11500

\* tax has been computed on an amount with more than 2 decimals, the tax
\* itself needing rounding upwards
C22_Witness ==
    /\ result.call = "calculate_tax"
    /\ result.amount % CentFine # 0
    /\ 2 * (((result.amount * result.tax_rate) \div 100) % CentFine) > CentFine

\* ---------------------------------------------------- invoice_aging_report
MaxAgingInvoices == 2   \* invoices in the store when the report is run
AgingNow == 100         \* the clock reading of the report

\* days between the date an invoice is aged from and the report
AgingOffsets == {0 - 1, 0, 30, 31, 45, 60, 61, 90, 91}

AgingCreatedOffset == 61   \* age of an invoice that has no due date

\* the column an invoice is aged from, and its distance from the report
AgedFrom ==
    {<<"due_date", d>> : d \in AgingOffsets} \cup {<<"created_at", AgingCreatedOffset>>}

\* An invoice of the store: with a due date (and created before it) or
\* without one; in any status (the overrides set any); with no payment or
\* one.
AgingCases == [aged_from : AgedFrom, status : Statuses, paid : {0, MaxAmount}]

AgingInvoice(id, c) ==
    [NewInvoice(id, MaxTotal,
                IF c.aged_from[1] = "due_date" THEN 0 ELSE AgingNow - c.aged_from[2],
                IF c.aged_from[1] = "due_date" THEN AgingNow - c.aged_from[2] ELSE NULL,
                NoId)
        EXCEPT !.status = c.status]

InitAging ==
    /\ \E n \in 0..MaxAgingInvoices : \E f \in [1..n -> AgingCases] :
          /\ invoices = {AgingInvoice(id, f[id]) : id \in 1..n}
          /\ payments = {NewPayment({}, id, f[id].paid) : id \in {x \in 1..n : f[x].paid # 0}}
          /\ nextId = n + 1
    /\ ret = NoRet
    /\ recurring = <<>>
    /\ db_type \in {"postgresql", "mysql"}
    /\ now = AgingNow
    /\ advances = 0
    /\ result = NoResult
    /\ tx = <<>>
    /\ is_running = FALSE
    /\ scheduler_thread = NoId
    /\ threads = <<>>
    /\ caller = <<>>
    /\ last = <<"none", FALSE>>

Buckets == {"current", "1-30_days", "31-60_days", "61-90_days", "over_90_days"}

\* (current_date - due_date).days, or the same from created_at when the
\* invoice has no due date
DaysOverdue(invoice, current_date) ==
    IF invoice.due_date # NULL THEN current_date - invoice.due_date
    ELSE current_date - invoice.created_at

BucketOfStrict(days_overdue) ==
    IF days_overdue < 0 THEN "current"
    ELSE IF days_overdue < 30 THEN "1-30_days"
    ELSE IF days_overdue < 60 THEN "31-60_days"
    ELSE IF days_overdue < 90 THEN "61-90_days"
    ELSE "over_90_days"

\* the if / elif chain that picks the bucket
BucketOf(days_overdue) ==
    IF days_overdue < 0 THEN "current"
    ELSE IF days_overdue <= 30 THEN "1-30_days"
    ELSE IF days_overdue <= 60 THEN "31-60_days"
    ELSE IF days_overdue <= 90 THEN "61-90_days"
    ELSE "over_90_days"

\* outstanding = invoice['total'] - paid_amount
Outstanding(invoice, pays) == invoice.total - TotalPaid(pays, invoice.id)

RECURSIVE SumOutstanding(_, _)
SumOutstanding(rows, pays) ==
    IF rows = {} THEN 0
    ELSE LET r == CHOOSE x \in rows : TRUE
         IN  Outstanding(r, pays) + SumOutstanding(rows \ {r}, pays)

\* SELECT ... WHERE i.status IN ('unpaid', 'partially_paid')
AgingRows(invs) == {i \in invs : i.status \in {"unpaid", "partially_paid"}}

AgingBuckets(invs, pays, current_date) ==
    [b \in Buckets |->
        LET rows == {i \in AgingRows(invs) : BucketOf(DaysOverdue(i, current_date)) = b}
        IN  [count |-> Cardinality(rows),
             amount |-> SumOutstanding(rows, pays),
             invoices |-> InvoiceIds(rows)]]

RECURSIVE SumBucketAmounts(_, _)
SumBucketAmounts(aging_buckets, names) ==
    IF names = {} THEN 0
    ELSE LET b == CHOOSE x \in names : TRUE
         IN  aging_buckets[b].amount + SumBucketAmounts(aging_buckets, names \ {b})

\* invoice_aging_report(conn): it reads the clock and the store, and writes
\* nothing
InvoiceAgingReport ==
    /\ result.call = "none"
    /\ LET aging_buckets == AgingBuckets(invoices, payments, now)
       IN  result' = [call |-> "invoice_aging_report", success |-> TRUE,
                      generated |-> <<>>, errors |-> <<>>,
                      total_outstanding |-> SumBucketAmounts(aging_buckets, Buckets),
                      aging_buckets |-> aging_buckets]
    /\ UNCHANGED <<ledgerVars, recurring, db_type, now, advances, txVars, workerVars>>

NextAging == InvoiceAgingReport

SpecAging == InitAging /\ [][NextAging]_vars

\* the buckets of the report that list the invoice
BucketsListing(id) == {b \in Buckets : id \in result.aging_buckets[b].invoices}

\* C23: the aging report lists every unpaid or partially paid invoice in
\* exactly one bucket (and no paid invoice in any), the bucket given by its
\* days overdue from the due date, or from the creation date without one:
\* current below 0, 1-30, 31-60, 61-90, over 90; a bucket's amount is the sum
\* of total - paid over its invoices, and total_outstanding the sum over the
\* buckets.
C23_AgingBuckets ==
    result.call = "invoice_aging_report" =>
        /\ \A i \in invoices :
              LET days == IF i.due_date # NULL THEN now - i.due_date
                          ELSE now - i.created_at
                  listed == BucketsListing(i.id)
              IN  IF i.status \in {"unpaid", "partially_paid"}
                  THEN /\ Cardinality(listed) = 1
                       /\ days < 0 => listed = {"current"}
                       /\ (1 <= days /\ days <= 30) => listed = {"1-30_days"}
                       /\ (31 <= days /\ days <= 60) => listed = {"31-60_days"}
                       /\ (61 <= days /\ days <= 90) => listed = {"61-90_days"}
                       /\ days > 90 => listed = {"over_90_days"}
                  ELSE listed = {}
        /\ \A b \in Buckets :
              /\ result.aging_buckets[b].invoices \subseteq InvoiceIds(invoices)
              /\ result.aging_buckets[b].count =
                    Cardinality(result.aging_buckets[b].invoices)
              /\ result.aging_buckets[b].amount =
                    SumOutstanding({i \in invoices :
                                       i.id \in result.aging_buckets[b].invoices},
                                   payments)
        /\ result.total_outstanding =
              SumOutstanding({i \in invoices : BucketsListing(i.id) # {}}, payments)

\* the report lists an unpaid invoice 45 days past due, nothing paid on it,
\* alone in the 31-60 bucket with its total as the amount, beside an invoice
\* of another bucket
C23_Witness ==
    /\ result.call = "invoice_aging_report"
    /\ \E i \in invoices :
          /\ i.status = "unpaid"
          /\ i.due_date # NULL
          /\ now - i.due_date = 45
          /\ TotalPaid(payments, i.id) = 0
          /\ result.aging_buckets["31-60_days"].invoices = {i.id}
          /\ result.aging_buckets["31-60_days"].amount = i.total
    /\ \E b \in Buckets \ {"31-60_days"} : result.aging_buckets[b].count > 0

\* ---------------------------------------------------- predictive_analytics
MaxForecastInvoices == 3   \* invoices in the store when the forecast is run
MaxMonthsBack == 3         \* invoices are 0..MaxMonthsBack months old, or older

\* the clock reading of the forecast, 2025-06-15
ForecastNow == Ordinal(2025, 6, 15)

\* more than 365 days before the forecast
OldMonthsBack == 13

\* the 15th of the month k months before the forecast
MonthsBefore(k) ==
    LET months == 2025 * 12 + 5 - k
    IN  Ordinal(months \div 12, (months % 12) + 1, 15)

ForecastCreated == {MonthsBefore(k) : k \in (0..MaxMonthsBack) \cup {OldMonthsBack}}

InitForecast ==
    /\ \E n \in 0..MaxForecastInvoices :
          \E f \in [1..n -> [created_at : ForecastCreated, total : Totals]] :
             /\ invoices = {NewInvoice(id, f[id].total, f[id].created_at, NULL, NoId) :
                               id \in 1..n}
             /\ nextId = n + 1
    /\ payments = {}
    /\ ret = NoRet
    /\ recurring = <<>>
    /\ db_type \in {"postgresql", "mysql"}
    /\ now = ForecastNow
    /\ advances = 0
    /\ result = NoResult
    /\ tx = <<>>
    /\ is_running = FALSE
    /\ scheduler_thread = NoId
    /\ threads = <<>>
    /\ caller = <<>>
    /\ last = <<"none", FALSE>>

\* date.strftime('%Y-%m'), as a number that orders as the string does
MonthKey(created_at) ==
    LET d == FromOrdinal(created_at) IN d.year * 12 + d.month

RECURSIVE SumTotals(_)
SumTotals(rows) ==
    IF rows = {} THEN 0
    ELSE LET r == CHOOSE x \in rows : TRUE
         IN  r.total + SumTotals(rows \ {r})

\* SELECT created_at, total FROM invoices WHERE created_at >= start_date
LastYear(invs, end_date) == {i \in invs : i.created_at >= end_date - YearlyDays}

\* monthly_revenue: month key -> sum of the totals of the month
MonthlyRevenue(rows) ==
    LET month_key == [i \in rows |-> MonthKey(i.created_at)]
    IN  [m \in {month_key[i] : i \in rows} |->
            SumTotals({i \in rows : month_key[i] = m})]

RECURSIVE SumRevenue(_, _)
SumRevenue(monthly_revenue, months) ==
    IF months = {} THEN 0
    ELSE LET m == CHOOSE x \in months : TRUE
         IN  monthly_revenue[m] + SumRevenue(monthly_revenue, months \ {m})

RECURSIVE SumSquares(_, _)
SumSquares(monthly_revenue, months) ==
    IF months = {} THEN 0
    ELSE LET m == CHOOSE x \in months : TRUE
         IN  monthly_revenue[m] * monthly_revenue[m]
                + SumSquares(monthly_revenue, months \ {m})

\* months[-n:] of the sorted keys
RECURSIVE LastMonths(_, _)
LastMonths(months, n) ==
    IF n = 0 \/ months = {} THEN {}
    ELSE LET m == CHOOSE x \in months : \A y \in months : y <= x
         IN  {m} \cup LastMonths(months \ {m}, n - 1)

\* predicted_next_month, as numerator and denominator.  With three months or
\* more it is avg_recent * (1 + trend), the trend taken against the three
\* months before when there are six and those sum to more than 0.
PredictedNextMonth(monthly_revenue) ==
    LET months == DOMAIN monthly_revenue
        recent == SumRevenue(monthly_revenue, LastMonths(months, 3))
        older == SumRevenue(monthly_revenue,
                            LastMonths(months, 6) \ LastMonths(months, 3))
    IN  IF Cardinality(months) >= 3
        THEN IF Cardinality(months) >= 6 /\ older > 0
             THEN <<recent * recent, 3 * older>>
             ELSE <<recent, 3>>
        ELSE <<SumRevenue(monthly_revenue, months), Cardinality(months)>>

\* the least k in lo..hi with k * k * den >= num, by bisection
RECURSIVE LeastSquareAbove(_, _, _, _)
LeastSquareAbove(lo, hi, num, den) ==
    IF lo >= hi THEN hi
    ELSE LET mid == (lo + hi) \div 2
         IN  IF mid * mid * den >= num
             THEN LeastSquareAbove(lo, mid, num, den)
             ELSE LeastSquareAbove(mid + 1, hi, num, den)

\* (1 - coefficient_of_variation) * 100, rounded down to a whole number.
\* With the n monthly revenues r, total = sum(r) and spread = n * sum(r^2) -
\* total^2, std_dev / avg is sqrt(spread) / total, at most sqrt(n); the
\* coefficient is 1 when the average is not positive.
ConfidenceUnclamped(monthly_revenue) ==
    LET months == DOMAIN monthly_revenue
        n == Cardinality(months)
        total == SumRevenue(monthly_revenue, months)
        spread == n * SumSquares(monthly_revenue, months) - total * total
    IN  IF total <= 0 THEN 0
        ELSE 100 - LeastSquareAbove(0, 100 * n, 10000 * spread, total * total)

Max(a, b) == IF a >= b THEN a ELSE b

Min(a, b) == IF a <= b THEN a ELSE b

\* confidence_score: max(0, min(100, ...)) with three months or more, 30 below
Confidence(monthly_revenue) ==
    IF Cardinality(DOMAIN monthly_revenue) >= 3
    THEN Max(0, Min(100, ConfidenceUnclamped(monthly_revenue)))
    ELSE 30

\* predictive_analytics(conn): it reads the clock and the store, and writes
\* nothing.  Without an invoice of the last 365 days it returns early, a
\* dictionary that has no confidence_score.
PredictiveAnalytics ==
    /\ result.call = "none"
    /\ LET rows == LastYear(invoices, now)
           monthly_revenue == MonthlyRevenue(rows)
           predicted_next_month == PredictedNextMonth(monthly_revenue)
       IN  result' =
              IF rows = {}
              THEN [call |-> "predictive_analytics", success |-> TRUE,
                    generated |-> <<>>, errors |-> <<>>,
                    message |-> "Insufficient data for predictions",
                    predicted_next_month |-> <<0, 1>>,
                    predicted_next_quarter |-> <<0, 1>>]
              ELSE [call |-> "predictive_analytics", success |-> TRUE,
                    generated |-> <<>>, errors |-> <<>>,
                    predicted_next_month |-> predicted_next_month,
                    predicted_next_quarter |->
                        <<3 * predicted_next_month[1], predicted_next_month[2]>>,
                    confidence_score |-> Confidence(monthly_revenue),
                    months_analyzed |-> Cardinality(DOMAIN monthly_revenue),
                    historical_average |->
                        <<SumRevenue(monthly_revenue, DOMAIN monthly_revenue),
                          Cardinality(DOMAIN monthly_revenue)>>]
    /\ UNCHANGED <<ledgerVars, recurring, db_type, now, advances, txVars, workerVars>>

NextForecast == PredictiveAnalytics

SpecForecast == InitForecast /\ [][NextForecast]_vars

\* C24: for every ledger content (an empty ledger, fewer than three months
\* of data and monthly revenues of mean zero included) predictive_analytics
\* returns a confidence score, and the score is within 0 and 100.
C24_ConfidenceReturned ==
    result.call = "predictive_analytics" =>
        /\ "confidence_score" \in DOMAIN result
        /\ result.confidence_score \in 0..100

\* the schedules a tick reports as generated, and as failed
GeneratedIds(res) == {res.generated[k].recurring_id : k \in DOMAIN res.generated}

ErrorIds(res) == {res.errors[k] : k \in DOMAIN res.errors}

\* C25: each successful generation of a tick stores exactly one new invoice
\* for the schedule, unpaid, with the schedule's total, created at the
\* generation time and due the payment terms later, and sets the schedule's
\* watermark to the generation time; a schedule without a successful
\* generation in the tick keeps all its fields, and a generated one all but
\* the watermark.
C25_GenerationPersisted ==
    [][result'.call = "process" =>
        LET done == GeneratedIds(result') \ ErrorIds(result')
            new == invoices' \ invoices
        IN  /\ \A s \in done :
                 /\ Cardinality({i \in new : i.recurring_id = s}) = 1
                 /\ \A i \in new : i.recurring_id = s =>
                       /\ i.id \notin InvoiceIds(invoices)
                       /\ i.status = "unpaid"
                       /\ i.total = recurring[s].total
                       /\ i.created_at = now
                       /\ i.due_date = now + PaymentTermsDays
                 /\ recurring'[s] = [recurring[s] EXCEPT !.last_generated = now]
            /\ \A s \in Schedules \ done : recurring'[s] = recurring[s]]_vars

\* a tick has just generated for a schedule later than the schedule's start
\* date: the watermark is the time of the tick
C25_Witness ==
    /\ result.call = "process"
    /\ \E s \in GeneratedIds(result) \ ErrorIds(result) :
          /\ recurring[s].last_generated = now
          /\ now > recurring[s].start_date
          /\ \E i \in invoices :
                i.recurring_id = s /\ i.created_at = now /\ i.status = "unpaid"

\* C26: a worker runs its first cycle without a sleep before it and sleeps
\* between consecutive cycles; an exception raised by a cycle is caught in
\* the loop, so the worker lives on, sleeps, and runs a cycle again unless
\* the scheduler has been stopped.
C26_WorkerLoop ==
    /\ [][/\ \A t \in DOMAIN threads' \ DOMAIN threads : threads'[t] = "check"
          /\ \A t \in DOMAIN threads : threads'[t] # threads[t] =>
                CASE threads[t] = "check" ->
                        threads'[t] = IF is_running THEN "process" ELSE "dead"
                  [] threads[t] = "process" -> threads'[t] \in {"sleep", "except"}
                  [] threads[t] = "except" -> threads'[t] = "sleep"
                  [] threads[t] = "sleep" -> threads'[t] = "check"
                  [] OTHER -> FALSE]_vars
    /\ \A t \in 1..MaxThreads :
          (t \in DOMAIN threads /\ threads[t] = "except")
             ~> ((t \in DOMAIN threads /\ threads[t] = "process") \/ ~is_running)

\* a cycle of a running scheduler's worker has raised, and the worker is in
\* the except clause of the loop
C26_Witness ==
    /\ is_running
    /\ scheduler_thread # NoId
    /\ threads[scheduler_thread] = "except"

\* how far along unpaid -> partially_paid -> paid a status is
StatusRank(status) ==
    CASE status = "unpaid" -> 0
      [] status = "partially_paid" -> 1
      [] status = "paid" -> 2

\* C27: without overrides and deletions no record_payment moves an
\* invoice's status backward along unpaid -> partially_paid -> paid; a paid
\* invoice stays paid.
C27_StatusNeverBackward ==
    [][\A i \in invoices : \A j \in invoices' :
          j.id = i.id => StatusRank(j.status) >= StatusRank(i.status)]_vars

\* C28: the result of a tick agrees with the store the tick leaves: no
\* schedule is both in generated_invoices and in errors; every entry of
\* generated_invoices names an invoice the tick stored for that schedule,
\* whose watermark the tick set; and there are as many entries as invoices
\* the tick stored.
C28_TickResultConsistent ==
    [][result'.call = "process" =>
        LET new == invoices' \ invoices
        IN  /\ GeneratedIds(result') \cap ErrorIds(result') = {}
            /\ \A k \in DOMAIN result'.generated :
                  /\ \E i \in new :
                        /\ i.id = result'.generated[k].invoice_id
                        /\ i.recurring_id = result'.generated[k].recurring_id
                  /\ recurring'[result'.generated[k].recurring_id].last_generated = now
            /\ Len(result'.generated) = Cardinality(new)]_vars

\* C29: the two due checks agree: asked at the clock reading of a tick,
\* get_due_recurring_invoices returns a schedule exactly when the tick
\* selects it and finds it due.
C29_DueChecksAgree ==
    \A s \in Schedules :
        s \in GetDueRecurringInvoices(recurring, Stamp(now))
            <=> DueAt(recurring, s, now)

\* a tick whose clock reads d selects schedule s and finds it due, the
\* schedules being as they are; the end date is allowed its whole day, so
\* that a tick on that day counts as one that generates
TickGeneratesAt(rec, s, d) ==
    /\ rec[s].is_active
    /\ (rec[s].end_date = NULL \/ d[1] <= rec[s].end_date)
    /\ IF rec[s].last_generated = NULL
       THEN IsoLE(DateOnly(rec[s].start_date), d)
       ELSE /\ FrequencyDays(rec[s].frequency) # NULL
            /\ IsoLE(PlusDays(Stamp(rec[s].last_generated),
                              FrequencyDays(rec[s].frequency)), d)

\* C30: get_upcoming_invoices is a projection of the ticks: for every entry
\* it lists, a tick run at the entry's next_generation_date, with no
\* generation in between, generates an invoice for the schedule.
C30_UpcomingIsGenerated ==
    [][result'.call = "upcoming" =>
        \A k \in DOMAIN result'.upcoming :
            TickGeneratesAt(recurring, result'.upcoming[k].recurring_id,
                            result'.upcoming[k].next_generation_date)]_vars
==========================================================================
